---------------------------- MODULE Spec2Model ----------------------------
(***************************************************************************)
(* Model of bdnelson/pull-metrics: the pullmetrics package (AnalyzePR, its *)
(* paginated fetch helpers and its derivation functions), AnalyzePRToJSON  *)
(* and the command line entry point.                                       *)
(*                                                                         *)
(* Conventions                                                             *)
(*   - a Go pointer is a tuple: Nil (<<>>) or Ptr(v) (<<v>>);              *)
(*   - an instant is a whole number of seconds (the API's resolution);     *)
(*   - a time.Time is [sec, zone]; an RFC3339 string is                    *)
(*     [valid, sec, zone]: two strings are equal iff they show the same    *)
(*     local time and the same offset;                                     *)
(*   - a float64 is the reduced fraction [num, den] it is the quotient of. *)
(***************************************************************************)
EXTENDS Integers, Sequences, FiniteSets, TLC

(***************************************************************************)
(* Bounds of the model.                                                    *)
(***************************************************************************)
MaxSec == 2
MaxReviews == 3
MaxItems == 2
MaxInputs == 3
MaxWords == 2
PageSize == 1

(***************************************************************************)
(* Pointers.                                                               *)
(***************************************************************************)
Nil == <<>>
Ptr(v) == <<v>>
Deref(p) == p[1]
Opt(S) == {Nil} \cup {Ptr(v) : v \in S}

(***************************************************************************)
(* float64 quotients.                                                      *)
(***************************************************************************)
RECURSIVE Gcd(_, _)
Gcd(a, b) == IF b = 0 THEN a ELSE Gcd(b, a % b)

Quot(n, d) == [num |-> n \div Gcd(n, d), den |-> d \div Gcd(n, d)]

SecondsPerHour == 3600

\* time.Duration.Hours() of a duration of d seconds
Hours(d) == Quot(d, SecondsPerHour)

FloatZero == Quot(0, 1)

FloatLess(x, y) == x.num * y.den < y.num * x.den

(***************************************************************************)
(* time.Time, RFC3339 strings and the conversions between them.            *)
(***************************************************************************)
UTC == 0

\* A time is an instant (sec) and a location (zone, its offset in hours). An
\* RFC3339 string holds the clock reading at the offset (sec), the digits of
\* a fractional second (frac) and the offset (zone); valid is FALSE for a
\* string time.Parse rejects.

\* t.Format(time.RFC3339): the layout has no fractional second
FormatRFC3339(t) ==
    [valid |-> TRUE, sec |-> t.sec + t.zone * SecondsPerHour, frac |-> 0, zone |-> t.zone]

\* time.Parse(time.RFC3339, s): the error flag and the parsed time. Parse
\* accepts a fractional second; the parsed time is kept to the second, which
\* is all that Format, After, Before and Sub of whole-second times look at.
ParseRFC3339(s) ==
    IF s.valid
    THEN [err |-> FALSE, t |-> [sec |-> s.sec - s.zone * SecondsPerHour, zone |-> s.zone]]
    ELSE [err |-> TRUE, t |-> [sec |-> 0, zone |-> UTC]]

\* t.UTC() leaving the location as it is
KeepLocation(t) == t

\* t.UTC()
ToUTC(t) == [sec |-> t.sec, zone |-> UTC]

\* t.After(u), t.Before(u), t.Sub(u) compare instants, whatever the zones
After(t, u) == t.sec > u.sec
Before(t, u) == t.sec < u.sec
Sub(t, u) == t.sec - u.sec

formatToUTC(timestamp) ==
    LET p == ParseRFC3339(timestamp)
    IN  IF p.err THEN timestamp ELSE FormatRFC3339(ToUTC(p.t))

(***************************************************************************)
(* Strings: logins and the texts searched for issue keys.                  *)
(***************************************************************************)
Range(s) == {s[i] : i \in DOMAIN s}

\* logins, listed in ascending lexicographic order
LoginsSorted == <<"alice", "bob", "carol", "dependabot[bot]">>
Logins == Range(LoginsSorted)

\* the logins that strings.Contains(username, "[bot]") accepts
BotLogins == {"dependabot[bot]"}

\* sort.Strings of the logins of a set
RECURSIVE ListOf(_, _)
ListOf(S, i) ==
    IF i > Len(LoginsSorted) THEN <<>>
    ELSE (IF LoginsSorted[i] \in S THEN <<LoginsSorted[i]>> ELSE <<>>) \o ListOf(S, i + 1)

\* A text is a sequence of words; a word is [up, lower]: its upper-case
\* spelling, and whether it is written in lower case.
\* The upper-case spellings that match \b[A-Z][A-Z0-9]+-\d+\b
jiraPattern == {"ABC-123", "SEC-1", "CVE-2023"}

\* strings.HasPrefix(upperMatch, "CVE-")
HasCVEPrefix(w) == w \in {"CVE-2023"}

\* strings.ToUpper of a text
ToUpper(text) == [i \in DOMAIN text |-> [up |-> text[i].up, lower |-> FALSE]]

\* pattern.FindAllString(text, -1): the matches, left to right
RECURSIVE FindAllString(_, _)
FindAllString(pattern, text) ==
    IF text = <<>> THEN <<>>
    ELSE (IF Head(text).up \in pattern /\ ~Head(text).lower THEN <<Head(text).up>> ELSE <<>>)
         \o FindAllString(pattern, Tail(text))

(***************************************************************************)
(* sort.Slice on the short slices of the model: an insertion sort, which   *)
(* moves an element left while it is less than its predecessor.            *)
(***************************************************************************)
RECURSIVE InsertionSort(_, _)
InsertionSort(keys, n) ==
    IF n = 0 THEN <<>>
    ELSE LET sorted == InsertionSort(keys, n - 1)
             pos == Cardinality({j \in 1 .. n - 1 : keys[j] <= keys[n]})
         IN  SubSeq(sorted, 1, pos) \o <<n>> \o SubSeq(sorted, pos + 1, n - 1)

\* items[i] has sort key keys[i]
SortBy(items, keys) ==
    LET order == InsertionSort(keys, Len(items))
    IN  [i \in DOMAIN items |-> items[order[i]]]

(***************************************************************************)
(* State.                                                                  *)
(***************************************************************************)
VARIABLES
    config,      \* the caller, the parsed command line and the token
    server,      \* what the GitHub API serves: the PR and each collection's pages
    clock,       \* time.Now(), in seconds
    pc,          \* position of the invocation
    optsPage,    \* opts.Page of the fetch helper that is running
    acc,         \* allReviews, allComments, ... of the fetch helper that is running
    requests,    \* the API requests issued so far: [what, page, ok]
    fetched,     \* AnalyzePR's locals pr, reviews, comments, reviewComments,
                 \* timeline, files, commits, releases
    timestamps,  \* *Timestamps
    metrics,     \* *PRMetrics
    result,      \* the *PRDetails AnalyzePR returns
    err,         \* the error AnalyzePR, NewAnalyzer or json.Marshal returns
    jsonOutput,  \* the []byte AnalyzePRToJSON returns
    stdout,      \* what main wrote to os.Stdout
    stderr,      \* what main wrote to os.Stderr
    exitCode,    \* the exit status of main
    prev,        \* the *PRDetails of the previous AnalyzePR call
    tt           \* a timestamp string, formatToUTC of it and formatToUTC of that

pr == fetched.pr
reviews == fetched.reviews
comments == fetched.comments
reviewComments == fetched.reviewComments
timeline == fetched.timeline
files == fetched.files
commits == fetched.commits
releases == fetched.releases

env == <<config, server>>
helper == <<optsPage, acc>>
derived == <<timestamps, metrics>>
returned == <<result, err>>
outputs == <<jsonOutput, stdout, stderr, exitCode>>

vars == <<env, clock, pc, helper, requests, fetched, derived, returned, outputs, prev, tt>>

(***************************************************************************)
(* Derivation functions.                                                   *)
(***************************************************************************)
\* a count per review and per pending request, without the map
countAllRequestedReviewersPerEntry(p, rs) == Len(rs) + Len(p.requestedReviewers)

countAllRequestedReviewers(p, rs) ==
    Cardinality({rs[i].login : i \in DOMAIN rs} \cup Range(p.requestedReviewers))

\* draftHours without the After guard
DraftTimeHoursUnguarded(ts) ==
    IF ts.CreatedAt # Nil /\ ts.FirstReviewRequest # Nil
    THEN Hours(Sub(ParseRFC3339(Deref(ts.FirstReviewRequest)).t,
                   ParseRFC3339(Deref(ts.CreatedAt)).t))
    ELSE FloatZero

\* draftHours of calculatePRMetrics
DraftTimeHours(ts) ==
    IF ts.CreatedAt # Nil /\ ts.FirstReviewRequest # Nil
    THEN LET c == ParseRFC3339(Deref(ts.CreatedAt))
             f == ParseRFC3339(Deref(ts.FirstReviewRequest))
         IN  IF ~c.err /\ ~f.err /\ After(f.t, c.t)
             THEN Hours(Sub(f.t, c.t))
             ELSE FloatZero
    ELSE FloatZero

\* the metric defaulted to zero like draftHours
TimeToFirstReviewRequestHoursDefaulted(ts) ==
    IF ts.CreatedAt # Nil /\ ts.FirstReviewRequest # Nil
    THEN LET c == ParseRFC3339(Deref(ts.CreatedAt))
             f == ParseRFC3339(Deref(ts.FirstReviewRequest))
         IN  IF ~c.err /\ ~f.err /\ After(f.t, c.t)
             THEN Ptr(Hours(Sub(f.t, c.t)))
             ELSE Ptr(FloatZero)
    ELSE Nil

TimeToFirstReviewRequestHours(ts) ==
    IF ts.CreatedAt # Nil /\ ts.FirstReviewRequest # Nil
    THEN LET c == ParseRFC3339(Deref(ts.CreatedAt))
             f == ParseRFC3339(Deref(ts.FirstReviewRequest))
         IN  IF ~c.err /\ ~f.err /\ After(f.t, c.t)
             THEN Ptr(Hours(Sub(f.t, c.t)))
             ELSE Nil
    ELSE Nil

\* the first comment preferred to an earlier approval
FirstReviewActivityTimeCommentFirst(ts) ==
    IF ts.FirstComment # Nil
    THEN Ptr(ParseRFC3339(Deref(ts.FirstComment)).t)
    ELSE IF ts.FirstApproval # Nil
         THEN Ptr(ParseRFC3339(Deref(ts.FirstApproval)).t)
         ELSE Nil

\* firstReviewActivityTime of calculatePRMetrics
FirstReviewActivityTime(ts) ==
    LET afterComment ==
            IF ts.FirstComment # Nil /\ ~ParseRFC3339(Deref(ts.FirstComment)).err
            THEN Ptr(ParseRFC3339(Deref(ts.FirstComment)).t)
            ELSE Nil
    IN  IF ts.FirstApproval # Nil /\ ~ParseRFC3339(Deref(ts.FirstApproval)).err
        THEN LET a == ParseRFC3339(Deref(ts.FirstApproval)).t
             IN  IF afterComment = Nil \/ Before(a, Deref(afterComment))
                 THEN Ptr(a)
                 ELSE afterComment
        ELSE afterComment

TimeToFirstReviewHours(ts) ==
    IF ts.FirstReviewRequest # Nil /\ ~ParseRFC3339(Deref(ts.FirstReviewRequest)).err
    THEN LET f == ParseRFC3339(Deref(ts.FirstReviewRequest)).t
             act == FirstReviewActivityTime(ts)
         IN  IF act # Nil /\ After(Deref(act), f)
             THEN Ptr(Hours(Sub(Deref(act), f)))
             ELSE Nil
    ELSE Nil

\* the close time preferred to the merge time
ResolutionTimeClosedFirst(ts) ==
    IF ts.ClosedAt # Nil
    THEN Ptr(ParseRFC3339(Deref(ts.ClosedAt)).t)
    ELSE IF ts.MergedAt # Nil
         THEN Ptr(ParseRFC3339(Deref(ts.MergedAt)).t)
         ELSE Nil

\* resolutionTime of calculatePRMetrics
ResolutionTime(ts) ==
    IF ts.MergedAt # Nil
    THEN IF ~ParseRFC3339(Deref(ts.MergedAt)).err
         THEN Ptr(ParseRFC3339(Deref(ts.MergedAt)).t)
         ELSE Nil
    ELSE IF ts.ClosedAt # Nil /\ ~ParseRFC3339(Deref(ts.ClosedAt)).err
         THEN Ptr(ParseRFC3339(Deref(ts.ClosedAt)).t)
         ELSE Nil

\* the cycle time set without the test that the resolution is after the request
ReviewCycleTimeHoursUnguarded(ts) ==
    IF ts.FirstReviewRequest # Nil /\ ~ParseRFC3339(Deref(ts.FirstReviewRequest)).err
    THEN LET f == ParseRFC3339(Deref(ts.FirstReviewRequest)).t
             res == ResolutionTime(ts)
         IN  IF res # Nil
             THEN Ptr(Hours(Sub(Deref(res), f)))
             ELSE Nil
    ELSE Nil

ReviewCycleTimeHours(ts) ==
    IF ts.FirstReviewRequest # Nil /\ ~ParseRFC3339(Deref(ts.FirstReviewRequest)).err
    THEN LET f == ParseRFC3339(Deref(ts.FirstReviewRequest)).t
             res == ResolutionTime(ts)
         IN  IF res # Nil /\ After(Deref(res), f)
             THEN Ptr(Hours(Sub(Deref(res), f)))
             ELSE Nil
    ELSE Nil

BlockingCount(rs) ==
    Cardinality({i \in DOMAIN rs : rs[i].state = "CHANGES_REQUESTED"})

\* approvals alone counted as non-blocking
NonBlockingCountApprovedOnly(rs) ==
    Cardinality({i \in DOMAIN rs : rs[i].state = "APPROVED"})

NonBlockingCount(rs) ==
    Cardinality({i \in DOMAIN rs :
        /\ rs[i].state # "CHANGES_REQUESTED"
        /\ (rs[i].state = "COMMENTED" \/ rs[i].state = "APPROVED")})

BlockingNonBlockingRatio(rs) ==
    IF NonBlockingCount(rs) > 0
    THEN Ptr(Quot(BlockingCount(rs), NonBlockingCount(rs)))
    ELSE Nil

\* the pending reviewers alone taken as the denominator
ReviewerParticipationRatioPendingOnly(p, rs) ==
    LET actualReviewers == {rs[i].login : i \in DOMAIN rs}
        requestedReviewers == Len(p.requestedReviewers)
    IN  IF requestedReviewers > 0
        THEN Ptr(Quot(Cardinality(actualReviewers), requestedReviewers))
        ELSE Nil

ReviewerParticipationRatio(p, rs) ==
    LET actualReviewers == {rs[i].login : i \in DOMAIN rs}
        requestedReviewers == countAllRequestedReviewers(p, rs)
    IN  IF requestedReviewers > 0
        THEN Ptr(Quot(Cardinality(actualReviewers), requestedReviewers))
        ELSE Nil

calculatePRMetrics(p, rs, cs, tl, ts) ==
    [ DraftTimeHours                |-> DraftTimeHours(ts),
      TimeToFirstReviewRequestHours |-> TimeToFirstReviewRequestHours(ts),
      TimeToFirstReviewHours        |-> TimeToFirstReviewHours(ts),
      ReviewCycleTimeHours          |-> ReviewCycleTimeHours(ts),
      BlockingNonBlockingRatio      |-> BlockingNonBlockingRatio(rs),
      ReviewerParticipationRatio    |-> ReviewerParticipationRatio(p, rs) ]

\* getPRState with the merged test first
getPRStateMergedFirst(p) ==
    IF p.merged THEN "merged"
    ELSE IF p.draft THEN "draft"
    ELSE p.state

getPRState(p) ==
    IF p.draft THEN "draft"
    ELSE IF p.merged THEN "merged"
    ELSE p.state

\* the map getApprovers fills
ApproverSet(rs) == {rs[i].login : i \in {j \in DOMAIN rs : rs[j].state = "APPROVED"}}

\* the orders in which a range over a map can yield its keys
MapOrders(S) ==
    {f \in [1 .. Cardinality(S) -> S] : \A i, j \in DOMAIN f : i # j => f[i] # f[j]}

\* one entry per approving review, without the map
getApproversPerReview(rs) ==
    LET approved == SelectSeq(rs, LAMBDA r : r.state = "APPROVED")
    IN  {[i \in DOMAIN approved |-> approved[i].login]}

\* the slices getApprovers can return: the map's keys in the order of the
\* range over the map, which the language leaves unspecified
getApprovers(rs) == MapOrders(ApproverSet(rs))

\* getCommenters without the test against authorUsername
getCommentersWithAuthor(cs, rcs, authorUsername) ==
    {cs[i].login : i \in DOMAIN cs} \cup {rcs[i].login : i \in DOMAIN rcs}

getCommenters(cs, rcs, authorUsername) ==
    {cs[i].login : i \in {j \in DOMAIN cs : cs[j].login # authorUsername}}
    \cup {rcs[i].login : i \in {j \in DOMAIN rcs : rcs[j].login # authorUsername}}

countTotalComments(cs, rcs) == Len(cs) + Len(rcs)

getCommenterUsernames(commenters) == ListOf(commenters, 1)

CommitDate(c) == c.date
CommentTime(t) == t.sec
SubmittedAt(r) == r.submittedAt.sec
PublishedAt(r) == Deref(r.publishedAt).sec

\* commits after getTimestamps' sort.Slice(commits, ...)
SortedCommits(cms) == SortBy(cms, [i \in DOMAIN cms |-> CommitDate(cms[i]).sec])

\* the first review_requested event of the timeline, if any
RECURSIVE FirstReviewRequested(_)
FirstReviewRequested(tl) ==
    IF tl = <<>> THEN Nil
    ELSE IF Head(tl).event = "review_requested" THEN Ptr(Head(tl))
    ELSE FirstReviewRequested(Tail(tl))

\* formatToUTC(t.Format(time.RFC3339)) of an optional time
StampOf(t) == IF t = Nil THEN Nil ELSE Ptr(formatToUTC(FormatRFC3339(Deref(t))))

\* allComments filled from the conversation comments only
AllCommentsOfConversation(cs, rcs) ==
    LET times == [i \in DOMAIN cs |-> cs[i].createdAt]
    IN  SortBy(times, [i \in DOMAIN times |-> CommentTime(times[i])])

\* allComments of getTimestamps, after its sort.Slice
AllComments(cs, rcs) ==
    LET times == [i \in DOMAIN cs |-> cs[i].createdAt]
                 \o [i \in DOMAIN rcs |-> rcs[i].createdAt]
    IN  SortBy(times, [i \in DOMAIN times |-> CommentTime(times[i])])

\* approvals left in the order of the reviews
ApprovalsUnsorted(rs) == SelectSeq(rs, LAMBDA r : r.state = "APPROVED")

\* approvals of getTimestamps, after its sort.Slice
Approvals(rs) ==
    LET approved == SelectSeq(rs, LAMBDA r : r.state = "APPROVED")
    IN  SortBy(approved, [i \in DOMAIN approved |-> SubmittedAt(approved[i])])

getTimestamps(p, rs, cs, rcs, tl, cms) ==
    LET allComments == AllComments(cs, rcs)
        approvals == Approvals(rs)
        request == FirstReviewRequested(tl)
    IN  [ FirstCommit        |-> IF Len(cms) > 0
                                 THEN StampOf(Ptr(CommitDate(SortedCommits(cms)[1])))
                                 ELSE Nil,
          CreatedAt          |-> StampOf(p.createdAt),
          FirstReviewRequest |-> IF request # Nil
                                 THEN StampOf(Ptr(Deref(request).createdAt))
                                 ELSE Nil,
          FirstComment       |-> IF Len(allComments) > 0 THEN StampOf(Ptr(allComments[1]))
                                 ELSE Nil,
          FirstApproval      |-> IF Len(approvals) > 0
                                 THEN StampOf(Ptr(approvals[1].submittedAt))
                                 ELSE Nil,
          SecondApproval     |-> IF Len(approvals) > 1
                                 THEN StampOf(Ptr(approvals[2].submittedAt))
                                 ELSE Nil,
          MergedAt           |-> StampOf(p.mergedAt),
          ClosedAt           |-> StampOf(p.closedAt) ]

RECURSIVE SumLines(_)
SumLines(fs) ==
    IF fs = <<>> THEN 0
    ELSE Head(fs).additions + Head(fs).deletions + SumLines(Tail(fs))

calculatePRSize(fs) == [LinesChanged |-> SumLines(fs), FilesChanged |-> Len(fs)]

\* the empty string
EmptyString == [valid |-> FALSE, sec |-> 0, frac |-> 0, zone |-> UTC]

\* validReleases left in the order of the release list
ValidReleasesUnsorted(rels, mergedTime) ==
    SelectSeq(rels, LAMBDA r : /\ r.publishedAt # Nil
                               /\ After(Deref(r.publishedAt), mergedTime))

\* validReleases of findReleaseInfoForMergedPR, after its sort.Slice
ValidReleases(rels, mergedTime) ==
    LET published == SelectSeq(rels, LAMBDA r :
                         /\ r.publishedAt # Nil
                         /\ After(Deref(r.publishedAt), mergedTime))
    IN  SortBy(published, [i \in DOMAIN published |-> PublishedAt(published[i])])

findReleaseInfoForMergedPR(p, rels) ==
    IF ~p.merged \/ p.mergedAt = Nil THEN Nil
    ELSE LET mergedTime == Deref(p.mergedAt)
             validReleases == ValidReleases(rels, mergedTime)
         IN  IF Len(validReleases) = 0 THEN Nil
             ELSE LET release == validReleases[1]
                  IN  Ptr([ Name      |-> IF release.name = "" THEN release.tagName
                                          ELSE release.name,
                            CreatedAt |-> IF release.createdAt # Nil
                                          THEN Deref(StampOf(release.createdAt))
                                          ELSE EmptyString ])

\* the pair (name, creation timestamp) of pointers
findReleaseForMergedPR(p, rels) ==
    LET releaseInfo == findReleaseInfoForMergedPR(p, rels)
    IN  IF releaseInfo = Nil THEN <<Nil, Nil>>
        ELSE <<Ptr(Deref(releaseInfo).Name), Ptr(Deref(releaseInfo).CreatedAt)>>

\* a count that also takes the commits dated at the request
countCommitsFromFirstReview(cms, tl) ==
    LET request == FirstReviewRequested(tl)
    IN  IF request = Nil THEN 0
        ELSE Cardinality({i \in DOMAIN cms :
                            ~Before(CommitDate(cms[i]), Deref(request).createdAt)})

\* a count with the earliest review request, wherever it stands, as cutoff
countCommitsAfterEarliestRequest(cms, tl) ==
    LET asked == {i \in DOMAIN tl : tl[i].event = "review_requested"}
    IN  IF asked = {} THEN 0
        ELSE LET first == CHOOSE i \in asked :
                             \A j \in asked : ~After(tl[i].createdAt, tl[j].createdAt)
             IN  Cardinality({i \in DOMAIN cms :
                                After(CommitDate(cms[i]), tl[first].createdAt)})

countCommitsAfterFirstReview(cms, tl) ==
    LET request == FirstReviewRequested(tl)
    IN  IF request = Nil THEN 0
        ELSE Cardinality({i \in DOMAIN cms :
                            After(CommitDate(cms[i]), Deref(request).createdAt)})

\* a count of the reviewers who requested changes
countChangeRequesters(rs) ==
    Cardinality({rs[i].login : i \in {j \in DOMAIN rs : rs[j].state = "CHANGES_REQUESTED"}})

countChangeRequests(rs) ==
    Cardinality({i \in DOMAIN rs : rs[i].state = "CHANGES_REQUESTED"})

\* isBot finding the marker in no login
isBotNever(username) == FALSE

isBot(username) == username \in BotLogins

\* the first match, whatever its prefix
FirstMatch(matches) == IF matches = <<>> THEN "" ELSE Head(matches)

\* the first match that is no CVE identifier, or ""
RECURSIVE FirstNonCVE(_)
FirstNonCVE(matches) ==
    IF matches = <<>> THEN ""
    ELSE IF ~HasCVEPrefix(Head(matches)) THEN Head(matches)
    ELSE FirstNonCVE(Tail(matches))

findValidJiraIssue(pattern, text) == FirstNonCVE(FindAllString(pattern, text))

\* extractJiraIssue searching the body before the title
extractJiraIssueBodyFirst(p) ==
    LET inTitle == findValidJiraIssue(jiraPattern, p.title)
        inBody == IF p.body # Nil /\ Deref(p.body) # <<>>
                  THEN findValidJiraIssue(jiraPattern, Deref(p.body))
                  ELSE ""
        inBranch == findValidJiraIssue(jiraPattern, ToUpper(p.headRef))
    IN  IF inBody # "" THEN inBody
        ELSE IF inTitle # "" THEN inTitle
        ELSE IF inBranch # "" THEN inBranch
        ELSE IF isBot(p.login) THEN "BOT"
        ELSE "UNKNOWN"

extractJiraIssue(p) ==
    LET inTitle == findValidJiraIssue(jiraPattern, p.title)
        inBody == IF p.body # Nil /\ Deref(p.body) # <<>>
                  THEN findValidJiraIssue(jiraPattern, Deref(p.body))
                  ELSE ""
        inBranch == findValidJiraIssue(jiraPattern, ToUpper(p.headRef))
    IN  IF inTitle # "" THEN inTitle
        ELSE IF inBody # "" THEN inBody
        ELSE IF inBranch # "" THEN inBranch
        ELSE IF isBot(p.login) THEN "BOT"
        ELSE "UNKNOWN"

\* the PRTimestamps AnalyzePR builds
PRTimestampsOf(ts, releaseCreatedAt) ==
    [ FirstCommit |-> ts.FirstCommit, CreatedAt |-> ts.CreatedAt,
      FirstReviewRequest |-> ts.FirstReviewRequest, FirstComment |-> ts.FirstComment,
      FirstApproval |-> ts.FirstApproval, SecondApproval |-> ts.SecondApproval,
      MergedAt |-> ts.MergedAt, ClosedAt |-> ts.ClosedAt,
      ReleaseCreatedAt |-> IF releaseCreatedAt # Nil /\ Deref(releaseCreatedAt) # EmptyString
                           THEN releaseCreatedAt
                           ELSE Nil ]

\* the PRDetails AnalyzePR builds from its locals, given the slice getApprovers
\* returned and time.Now(); getTimestamps has sorted the commits by then
PRDetailsOf(cfg, f, approvers, now) ==
    LET commenters == getCommenters(f.comments, f.reviewComments, f.pr.login)
        ts == getTimestamps(f.pr, f.reviews, f.comments, f.reviewComments,
                            f.timeline, f.commits)
        prSize == calculatePRSize(f.files)
        release == findReleaseForMergedPR(f.pr, f.releases)
    IN  [ OrganizationName        |-> cfg.org,
          RepositoryName          |-> cfg.repo,
          PRNumber                |-> cfg.prNumber,
          PRTitle                 |-> f.pr.title,
          PRWebURL                |-> f.pr.htmlURL,
          PRNodeID                |-> f.pr.nodeID,
          AuthorUsername          |-> f.pr.login,
          ApproverUsernames       |-> approvers,
          CommenterUsernames      |-> getCommenterUsernames(commenters),
          State                   |-> getPRState(f.pr),
          NumComments             |-> countTotalComments(f.comments, f.reviewComments),
          NumCommenters           |-> Cardinality(commenters),
          NumApprovers            |-> Len(approvers),
          NumRequestedReviewers   |-> countAllRequestedReviewers(f.pr, f.reviews),
          ChangeRequestsCount     |-> countChangeRequests(f.reviews),
          LinesChanged            |-> prSize.LinesChanged,
          FilesChanged            |-> prSize.FilesChanged,
          CommitsAfterFirstReview |-> countCommitsAfterFirstReview(SortedCommits(f.commits),
                                                                   f.timeline),
          JiraIssue               |-> extractJiraIssue(f.pr),
          IsBot                   |-> isBot(f.pr.login),
          Metrics                 |-> Ptr(calculatePRMetrics(f.pr, f.reviews, f.comments,
                                                             f.timeline, ts)),
          ReleaseName             |-> release[1],
          Timestamps              |-> Ptr(PRTimestampsOf(ts, release[2])),
          GeneratedAt             |-> FormatRFC3339(ToUTC(now)) ]

(***************************************************************************)
(* Input domains.                                                          *)
(***************************************************************************)
Reviewers == {"alice", "bob"}

Verdicts == {"APPROVED", "CHANGES_REQUESTED", "COMMENTED", "DISMISSED"}

Instants == 0 .. MaxSec
Epoch == [sec |-> 0, zone |-> UTC]

\* the sequences over S of length at most n
SeqsUpTo(S, n) == UNION {[1 .. k -> S] : k \in 0 .. n}

DefaultPR ==
    [ draft |-> FALSE, merged |-> FALSE, state |-> "open",
      createdAt |-> Ptr(Epoch), mergedAt |-> Nil, closedAt |-> Nil,
      login |-> "carol", requestedReviewers |-> <<>>,
      title |-> <<>>, htmlURL |-> "https://github.com/org/repo/pull/1",
      nodeID |-> "PR_node123", body |-> Nil, headRef |-> <<>> ]

\* AnalyzePR's locals before any fetch
NothingFetched ==
    [ pr |-> DefaultPR, reviews |-> <<>>, comments |-> <<>>, reviewComments |-> <<>>,
      timeline |-> <<>>, files |-> <<>>, commits |-> <<>>, releases |-> <<>> ]

\* a response page: its items and resp.NextPage
Page(items, next) == [items |-> items, next |-> next]

EmptyServer ==
    [ pr |-> DefaultPR,
      reviews |-> <<Page(<<>>, 0)>>, comments |-> <<Page(<<>>, 0)>>,
      reviewComments |-> <<Page(<<>>, 0)>>, timeline |-> <<Page(<<>>, 0)>>,
      files |-> <<Page(<<>>, 0)>>, commits |-> <<Page(<<>>, 0)>>,
      releases |-> <<Page(<<>>, 0)>> ]

\* a library caller with a token
LibConfig ==
    [ caller |-> "lib", parse |-> "ok", token |-> "ghp_token",
      org |-> "org", repo |-> "repo", prNumber |-> 1 ]

NoTimestamps ==
    [ FirstCommit |-> Nil, CreatedAt |-> Nil, FirstReviewRequest |-> Nil,
      FirstComment |-> Nil, FirstApproval |-> Nil, SecondApproval |-> Nil,
      MergedAt |-> Nil, ClosedAt |-> Nil ]

\* no string handed to formatToUTC
NoTimestamp == [timestamp |-> EmptyString, result |-> Nil, again |-> Nil]

NoMetrics == Nil

\* the UTC RFC3339 strings getTimestamps can store
UTCStrings == {FormatRFC3339([sec |-> s, zone |-> UTC]) : s \in Instants}

(***************************************************************************)
(* calculatePRMetrics applied to the timestamps, reviews and pending       *)
(* reviewers of its callers.                                               *)
(***************************************************************************)
InitMetrics ==
    /\ pc = "metrics"
    /\ config = LibConfig
    /\ server = EmptyServer
    /\ clock = 0
    /\ optsPage = 0 /\ acc = <<>> /\ requests = <<>>
    /\ metrics = NoMetrics
    /\ result = Nil /\ err = Nil /\ prev = Nil
    /\ jsonOutput = Nil /\ stdout = <<>> /\ stderr = <<>> /\ exitCode = Nil
    /\ tt = NoTimestamp
    /\ \/ /\ timestamps \in
                [ FirstCommit : {Nil}, CreatedAt : Opt(UTCStrings),
                  FirstReviewRequest : Opt(UTCStrings), FirstComment : Opt(UTCStrings),
                  FirstApproval : Opt(UTCStrings), SecondApproval : {Nil},
                  MergedAt : Opt(UTCStrings), ClosedAt : Opt(UTCStrings) ]
          /\ fetched = NothingFetched
       \/ /\ timestamps = NoTimestamps
          /\ \E pending \in SUBSET (Logins \ {"dependabot[bot]"}),
                rs \in SeqsUpTo([login : Reviewers, state : Verdicts, submittedAt : {Epoch}],
                                MaxReviews) :
                fetched = [NothingFetched EXCEPT
                              !.pr = [DefaultPR EXCEPT !.requestedReviewers = ListOf(pending, 1)],
                              !.reviews = rs]

CalculateMetrics ==
    /\ pc = "metrics"
    /\ metrics' = Ptr(calculatePRMetrics(pr, reviews, comments, timeline, timestamps))
    /\ pc' = "metricsDone"
    /\ UNCHANGED <<env, tt, clock, helper, requests, fetched, timestamps, returned, outputs, prev>>

NextMetrics == CalculateMetrics

SpecMetrics == InitMetrics /\ [][NextMetrics]_vars

(***************************************************************************)
(* What the API serves.  Item i of a collection is fixed by its index;     *)
(* the server cuts each collection into pages of PageSize items.           *)
(***************************************************************************)
At(s, z) == [sec |-> s % (MaxSec + 1), zone |-> z]

ReviewItem(i) ==
    [ login |-> IF i % 2 = 1 THEN "alice" ELSE "bob",
      state |-> IF i <= 2 THEN "APPROVED" ELSE "CHANGES_REQUESTED",
      submittedAt |-> At(MaxSec + 1 - i, UTC) ]

CommentItem(i) ==
    [ login |-> IF i % 2 = 1 THEN "bob" ELSE "carol", createdAt |-> At(i + 1, UTC) ]

ReviewCommentItem(i) ==
    [ login |-> IF i % 2 = 1 THEN "alice" ELSE "carol", createdAt |-> At(i, i % 2) ]

TimelineItem(i) ==
    [ event |-> IF i % 2 = 1 THEN "review_requested" ELSE "labeled",
      createdAt |-> At(i, UTC) ]

FileItem(i) == [filename |-> i, additions |-> i, deletions |-> 1]

CommitItem(i) == [sha |-> i, date |-> At(MaxSec + 1 - i, i % 2)]

ReleaseItem(i) ==
    [ name |-> IF i % 2 = 1 THEN "" ELSE "Release 2", tagName |-> "v1.0.0",
      publishedAt |-> Ptr(At(MaxSec + 1 - i, UTC)), createdAt |-> Ptr(At(MaxSec - i, UTC)) ]

\* the pages of a collection, from its item number `from` on, numbered from `no`;
\* the page that holds the last items names no next page
RECURSIVE Paginate(_, _, _)
Paginate(items, from, no) ==
    IF Len(items) - from + 1 <= PageSize
    THEN <<Page(SubSeq(items, from, Len(items)), 0)>>
    ELSE <<Page(SubSeq(items, from, from + PageSize - 1), no + 1)>>
         \o Paginate(items, from + PageSize, no + 1)

Pages(items) == Paginate(items, 1, 1)

Counts == 0 .. MaxItems

ServedPRs ==
    { [DefaultPR EXCEPT !.merged = m,
                        !.state = IF m THEN "closed" ELSE "open",
                        !.mergedAt = IF m THEN Ptr(At(1, UTC)) ELSE Nil,
                        !.closedAt = IF m THEN Ptr(At(1, UTC)) ELSE Nil,
                        !.createdAt = c]
      : m \in BOOLEAN, c \in {Nil, Ptr(Epoch)} }

\* the servers of the model: the reviews, the timeline and the commits vary in
\* length on their own, the other collections together
Servers ==
    { [ pr |-> p,
        reviews |-> Pages([i \in 1 .. n[1] |-> ReviewItem(i)]),
        comments |-> Pages([i \in 1 .. n[4] |-> CommentItem(i)]),
        reviewComments |-> Pages([i \in 1 .. n[4] |-> ReviewCommentItem(i)]),
        timeline |-> Pages([i \in 1 .. n[2] |-> TimelineItem(i)]),
        files |-> Pages([i \in 1 .. n[4] |-> FileItem(i)]),
        commits |-> Pages([i \in 1 .. n[3] |-> CommitItem(i)]),
        releases |-> Pages([i \in 1 .. n[4] |-> ReleaseItem(i)]) ]
      : p \in ServedPRs, n \in [1 .. 4 -> Counts] }

Configs ==
    [ caller : {"cli"}, parse : {"ok", "help", "error"}, token : {"", "ghp_token"},
      org : {"org"}, repo : {"repo"}, prNumber : {1} ]
    \cup
    [ caller : {"lib"}, parse : {"ok"}, token : {"", "ghp_token"},
      org : {"org"}, repo : {"repo"}, prNumber : {1} ]

(***************************************************************************)
(* The command line, AnalyzePRToJSON and AnalyzePR.                        *)
(***************************************************************************)
Init ==
    /\ config \in Configs
    /\ server \in Servers
    /\ clock = 0
    /\ pc = IF config.caller = "cli" THEN "main" ELSE "AnalyzePRToJSON"
    /\ optsPage = 0 /\ acc = <<>> /\ requests = <<>>
    /\ fetched = NothingFetched
    /\ timestamps = NoTimestamps /\ metrics = NoMetrics
    /\ result = Nil /\ err = Nil /\ prev = Nil
    /\ jsonOutput = Nil /\ stdout = <<>> /\ stderr = <<>> /\ exitCode = Nil
    /\ tt = NoTimestamp

\* where AnalyzePRToJSON's caller goes on
Caller == IF config.caller = "cli" THEN "print" ELSE "done"

\* main up to its call of AnalyzePRToJSONString
Main ==
    /\ pc = "main"
    /\ IF config.parse = "help"
       THEN /\ stdout' = Append(stdout, "help")
            /\ exitCode' = Ptr(0)
            /\ pc' = "exit"
            /\ UNCHANGED stderr
       ELSE IF config.parse = "error"
       THEN /\ stderr' = Append(stderr, "Error parsing configuration")
            /\ exitCode' = Ptr(1)
            /\ pc' = "exit"
            /\ UNCHANGED stdout
       ELSE IF config.token = ""
       THEN /\ stderr' = Append(stderr, "GITHUB_TOKEN environment variable is required")
            /\ exitCode' = Ptr(1)
            /\ pc' = "exit"
            /\ UNCHANGED stdout
       ELSE /\ pc' = "AnalyzePRToJSON"
            /\ UNCHANGED <<stdout, stderr, exitCode>>
    /\ UNCHANGED <<env, tt, clock, helper, requests, fetched, derived, returned, jsonOutput, prev>>

\* NewAnalyzer building a client for any token, the empty one too
NewAnalyzerAnyToken ==
    /\ pc = "AnalyzePRToJSON"
    /\ pc' = "fetchPR"
    /\ UNCHANGED <<env, tt, clock, helper, requests, fetched, derived, returned, outputs, prev>>

\* AnalyzePRToJSON up to its call of AnalyzePR: NewAnalyzer
NewAnalyzer ==
    /\ pc = "AnalyzePRToJSON"
    /\ IF config.token = ""
       THEN /\ err' = Ptr(<<"failed to create analyzer", "GitHub token is required">>)
            /\ pc' = Caller
       ELSE /\ pc' = "fetchPR"
            /\ UNCHANGED err
    /\ UNCHANGED <<env, tt, clock, helper, requests, fetched, derived, result, outputs, prev>>

\* a helper that, on a failed request, left its loop and returned what it had
FetchErrorIgnored(field, nextPc) ==
    /\ fetched' = IF field = "pr" THEN [fetched EXCEPT !.pr = DefaultPR]
                                  ELSE [fetched EXCEPT ![field] = acc]
    /\ pc' = nextPc
    /\ acc' = <<>>
    /\ optsPage' = 0
    /\ UNCHANGED returned

\* a helper that, on a failed request, goes round its loop again
FetchErrorRetried(field, nextPc) ==
    UNCHANGED <<fetched, pc, acc, optsPage, returned>>

\* a request that fails: the helper returns nil and its wrapped error, and
\* AnalyzePR returns nil and that error
FetchError(field, nextPc) ==
    /\ err' = Ptr(<<"failed to fetch", field>>)
    /\ result' = Nil
    /\ pc' = "returned"
    /\ acc' = <<>>
    /\ optsPage' = 0
    /\ UNCHANGED fetched

fetchPR ==
    /\ pc = "fetchPR"
    /\ \/ /\ requests' = Append(requests, [what |-> "pr", page |-> 0, ok |-> TRUE])
          /\ fetched' = [fetched EXCEPT !.pr = server.pr]
          /\ pc' = "fetchReviews"
          /\ UNCHANGED <<helper, returned>>
       \/ /\ requests' = Append(requests, [what |-> "pr", page |-> 0, ok |-> FALSE])
          /\ FetchError("pr", "fetchReviews")
    /\ UNCHANGED <<env, tt, clock, derived, outputs, prev>>

\* a fetch helper without its loop: the first page is all it returns
FetchFirstPage(field, nextPc) ==
    /\ \/ /\ requests' = Append(requests, [what |-> field, page |-> 1, ok |-> TRUE])
          /\ fetched' = [fetched EXCEPT ![field] = server[field][1].items]
          /\ pc' = nextPc
          /\ UNCHANGED <<helper, returned>>
       \/ /\ requests' = Append(requests, [what |-> field, page |-> 1, ok |-> FALSE])
          /\ FetchError(field, nextPc)
    /\ UNCHANGED <<env, tt, clock, derived, outputs, prev>>

\* a fetch helper that returns the items of its last response only
FetchListLastPage(field, nextPc) ==
    /\ LET page == IF optsPage = 0 THEN 1 ELSE optsPage
       IN  \/ /\ page \in DOMAIN server[field]
              /\ requests' = Append(requests, [what |-> field, page |-> page, ok |-> TRUE])
              /\ LET resp == server[field][page]
                 IN  IF resp.next = 0
                     THEN /\ fetched' = [fetched EXCEPT ![field] = resp.items]
                          /\ optsPage' = 0
                          /\ pc' = nextPc
                     ELSE /\ optsPage' = resp.next
                          /\ UNCHANGED <<fetched, pc>>
              /\ UNCHANGED <<acc, returned>>
           \/ /\ requests' = Append(requests, [what |-> field, page |-> page, ok |-> FALSE])
              /\ FetchError(field, nextPc)
    /\ UNCHANGED <<env, tt, clock, derived, outputs, prev>>

\* one pass of a fetch helper's loop: the request for opts.Page (0 asks for
\* the first page), then the append and the test of resp.NextPage
FetchList(field, nextPc) ==
    /\ LET page == IF optsPage = 0 THEN 1 ELSE optsPage
       IN  \/ /\ page \in DOMAIN server[field]
              /\ requests' = Append(requests, [what |-> field, page |-> page, ok |-> TRUE])
              /\ LET resp == server[field][page]
                     all == acc \o resp.items
                 IN  IF resp.next = 0
                     THEN /\ fetched' = [fetched EXCEPT ![field] = all]
                          /\ acc' = <<>>
                          /\ optsPage' = 0
                          /\ pc' = nextPc
                     ELSE /\ acc' = all
                          /\ optsPage' = resp.next
                          /\ UNCHANGED <<fetched, pc>>
              /\ UNCHANGED returned
           \/ /\ requests' = Append(requests, [what |-> field, page |-> page, ok |-> FALSE])
              /\ FetchError(field, nextPc)
    /\ UNCHANGED <<env, tt, clock, derived, outputs, prev>>

fetchReviews ==
    /\ pc = "fetchReviews"
    /\ FetchList("reviews", "fetchComments")

fetchComments ==
    /\ pc = "fetchComments"
    /\ FetchList("comments", "fetchReviewComments")

fetchReviewComments ==
    /\ pc = "fetchReviewComments"
    /\ FetchList("reviewComments", "fetchTimeline")

fetchTimeline ==
    /\ pc = "fetchTimeline"
    /\ FetchList("timeline", "fetchPRFiles")

fetchPRFiles ==
    /\ pc = "fetchPRFiles"
    /\ FetchList("files", "fetchPRCommits")

\* AnalyzePR asking for the releases whatever the merged flag
fetchPRCommitsThenReleases ==
    /\ pc = "fetchPRCommits"
    /\ FetchList("commits", "fetchReleases")

fetchPRCommits ==
    /\ pc = "fetchPRCommits"
    /\ FetchList("commits", IF pr.merged THEN "fetchReleases" ELSE "derive")

fetchReleases ==
    /\ pc = "fetchReleases"
    /\ FetchList("releases", "derive")


\* the derivation stage of AnalyzePR and its return
Derive ==
    /\ pc = "derive"
    /\ \E approvers \in getApprovers(reviews) :
          result' = Ptr(PRDetailsOf(config, fetched, approvers, [sec |-> clock, zone |-> UTC]))
    /\ timestamps' = getTimestamps(pr, reviews, comments, reviewComments, timeline, commits)
    /\ metrics' = Ptr(calculatePRMetrics(pr, reviews, comments, timeline, timestamps'))
    /\ fetched' = [fetched EXCEPT !.commits = SortedCommits(commits)]
    /\ err' = Nil
    /\ pc' = "returned"
    /\ UNCHANGED <<env, tt, clock, helper, requests, outputs, prev>>

\* json.Marshal of a *PRMetrics: omitempty leaves a nil pointer out
MarshalMetrics(m) ==
    LET optional == {"time_to_first_review_request_hours", "time_to_first_review_hours",
                     "review_cycle_time_hours", "blocking_non_blocking_ratio",
                     "reviewer_participation_ratio"}
        field(k) == CASE k = "time_to_first_review_request_hours" -> m.TimeToFirstReviewRequestHours
                      [] k = "time_to_first_review_hours" -> m.TimeToFirstReviewHours
                      [] k = "review_cycle_time_hours" -> m.ReviewCycleTimeHours
                      [] k = "blocking_non_blocking_ratio" -> m.BlockingNonBlockingRatio
                      [] k = "reviewer_participation_ratio" -> m.ReviewerParticipationRatio
    IN  [k \in {"draft_time_hours"} \cup {o \in optional : field(o) # Nil} |->
            IF k = "draft_time_hours" THEN m.DraftTimeHours ELSE Deref(field(k))]

\* json.Marshal of a *PRTimestamps
MarshalTimestamps(t) ==
    LET field(k) == CASE k = "first_commit" -> t.FirstCommit
                      [] k = "created_at" -> t.CreatedAt
                      [] k = "first_review_request" -> t.FirstReviewRequest
                      [] k = "first_comment" -> t.FirstComment
                      [] k = "first_approval" -> t.FirstApproval
                      [] k = "second_approval" -> t.SecondApproval
                      [] k = "merged_at" -> t.MergedAt
                      [] k = "closed_at" -> t.ClosedAt
                      [] k = "release_created_at" -> t.ReleaseCreatedAt
        keys == {"first_commit", "created_at", "first_review_request", "first_comment",
                 "first_approval", "second_approval", "merged_at", "closed_at",
                 "release_created_at"}
    IN  [k \in {o \in keys : field(o) # Nil} |-> Deref(field(k))]

\* json.Marshal of a *PRDetails: the object as a function of its keys
Marshal(d) ==
    LET required == {"organization_name", "repository_name", "pr_number", "pr_title",
                     "pr_web_url", "pr_node_id", "author_username", "approver_usernames",
                     "commenter_usernames", "state", "num_comments", "num_commenters",
                     "num_approvers", "num_requested_reviewers", "change_requests_count",
                     "lines_changed", "files_changed", "commits_after_first_review",
                     "jira_issue", "is_bot", "generated_at"}
        omitempty == (IF d.Metrics # Nil THEN {"metrics"} ELSE {})
                     \cup (IF d.ReleaseName # Nil THEN {"release_name"} ELSE {})
                     \cup (IF d.Timestamps # Nil THEN {"timestamps"} ELSE {})
    IN  [k \in required \cup omitempty |->
            CASE k = "organization_name" -> d.OrganizationName
              [] k = "repository_name" -> d.RepositoryName
              [] k = "pr_number" -> d.PRNumber
              [] k = "pr_title" -> d.PRTitle
              [] k = "pr_web_url" -> d.PRWebURL
              [] k = "pr_node_id" -> d.PRNodeID
              [] k = "author_username" -> d.AuthorUsername
              [] k = "approver_usernames" -> d.ApproverUsernames
              [] k = "commenter_usernames" -> d.CommenterUsernames
              [] k = "state" -> d.State
              [] k = "num_comments" -> d.NumComments
              [] k = "num_commenters" -> d.NumCommenters
              [] k = "num_approvers" -> d.NumApprovers
              [] k = "num_requested_reviewers" -> d.NumRequestedReviewers
              [] k = "change_requests_count" -> d.ChangeRequestsCount
              [] k = "lines_changed" -> d.LinesChanged
              [] k = "files_changed" -> d.FilesChanged
              [] k = "commits_after_first_review" -> d.CommitsAfterFirstReview
              [] k = "jira_issue" -> d.JiraIssue
              [] k = "is_bot" -> d.IsBot
              [] k = "generated_at" -> d.GeneratedAt
              [] k = "metrics" -> MarshalMetrics(Deref(d.Metrics))
              [] k = "release_name" -> Deref(d.ReleaseName)
              [] k = "timestamps" -> MarshalTimestamps(Deref(d.Timestamps))]

\* AnalyzePRToJSON after AnalyzePR has returned
AnalyzePRToJSON ==
    /\ pc = "returned"
    /\ IF err # Nil
       THEN /\ jsonOutput' = Nil
            /\ err' = Ptr(<<"failed to analyze PR", Deref(err)>>)
       ELSE /\ jsonOutput' = Ptr(Marshal(Deref(result)))
            /\ UNCHANGED err
    /\ pc' = Caller
    /\ UNCHANGED <<env, tt, clock, helper, requests, fetched, derived, result,
                   stdout, stderr, exitCode, prev>>

\* main after AnalyzePRToJSONString has returned
PrintResult ==
    /\ pc = "print"
    /\ IF err # Nil
       THEN /\ stderr' = Append(stderr, <<"Error analyzing PR", Deref(err)>>)
            /\ exitCode' = Ptr(1)
            /\ UNCHANGED stdout
       ELSE /\ stdout' = Append(stdout, Deref(jsonOutput))
            /\ exitCode' = Ptr(0)
            /\ UNCHANGED stderr
    /\ pc' = "exit"
    /\ UNCHANGED <<env, tt, clock, helper, requests, fetched, derived, returned, jsonOutput, prev>>

Next ==
    \/ Main
    \/ NewAnalyzer
    \/ fetchPR
    \/ fetchReviews
    \/ fetchComments
    \/ fetchReviewComments
    \/ fetchTimeline
    \/ fetchPRFiles
    \/ fetchPRCommits
    \/ fetchReleases
    \/ Derive
    \/ AnalyzePRToJSON
    \/ PrintResult

Spec == Init /\ [][Next]_vars

\* a caller that, once AnalyzePRToJSON has returned its JSON, analyses the
\* same pull request again: the second call starts from fresh locals
AnalyzeAgain ==
    /\ pc = "done"
    /\ err = Nil
    /\ prev = Nil
    /\ prev' = Ptr([result |-> Deref(result), jsonOutput |-> Deref(jsonOutput)])
    /\ clock' = clock + 1
    /\ pc' = "AnalyzePRToJSON"
    /\ requests' = <<>>
    /\ fetched' = NothingFetched
    /\ timestamps' = NoTimestamps
    /\ metrics' = NoMetrics
    /\ result' = Nil
    /\ jsonOutput' = Nil
    /\ UNCHANGED <<env, tt, helper, err, stdout, stderr, exitCode>>

NextTwice == Next \/ AnalyzeAgain

SpecTwice == Init /\ [][NextTwice]_vars

\* AnalyzePR after fetchPR has returned the pull request: the paginated
\* helpers, one after the other
InitFetch ==
    /\ config = LibConfig
    /\ server \in Servers
    /\ clock = 0
    /\ pc = "fetchReviews"
    /\ optsPage = 0 /\ acc = <<>>
    /\ requests = << [what |-> "pr", page |-> 0, ok |-> TRUE] >>
    /\ fetched = [NothingFetched EXCEPT !.pr = server.pr]
    /\ timestamps = NoTimestamps /\ metrics = NoMetrics
    /\ result = Nil /\ err = Nil /\ prev = Nil
    /\ jsonOutput = Nil /\ stdout = <<>> /\ stderr = <<>> /\ exitCode = Nil
    /\ tt = NoTimestamp

NextFetch ==
    \/ fetchReviews
    \/ fetchComments
    \/ fetchReviewComments
    \/ fetchTimeline
    \/ fetchPRFiles
    \/ fetchPRCommits
    \/ fetchReleases

\* a helper's loop is sequential code: its next request is issued and answered
SpecFetch == InitFetch /\ [][NextFetch]_vars /\ WF_vars(NextFetch)

(***************************************************************************)
(* Properties of AnalyzePR, AnalyzePRToJSON and the command line.          *)
(***************************************************************************)
FetchFailed == \E i \in DOMAIN requests : ~requests[i].ok

\* C1: once a request of any fetch step has failed, on whatever page, AnalyzePR
\* has returned an error and a nil result, AnalyzePRToJSON returns no JSON and
\* nothing is printed on standard output; the command line exits with status 1.
C1_FetchFailureAbortsAnalysis ==
    FetchFailed =>
        /\ result = Nil
        /\ err # Nil
        /\ jsonOutput = Nil
        /\ stdout = <<>>
        /\ pc = "exit" => (exitCode = Ptr(1) /\ stderr # <<>>)

\* a run of the command line that ended after the second page of a collection
\* could not be fetched, the first page having been appended
C1_Witness ==
    /\ pc = "exit"
    /\ \E i \in DOMAIN requests :
          /\ ~requests[i].ok
          /\ requests[i].page = 2
          /\ requests[i].what = "commits"

\* the items the API serves for a collection, in page order
RECURSIVE Flatten(_)
Flatten(pages) ==
    IF pages = <<>> THEN <<>> ELSE Head(pages).items \o Flatten(Tail(pages))

\* what AnalyzePR passes to the derivation stage for a collection
PassedIn(field) ==
    IF field = "releases" /\ ~server.pr.merged THEN <<>> ELSE Flatten(server[field])

Collections ==
    {"reviews", "comments", "reviewComments", "timeline", "files", "commits", "releases"}

\* C2: when AnalyzePR has built its result, every collection it passed to the
\* derivation functions still holds the same elements in the same order.
C2_DerivationLeavesInputs ==
    result # Nil => \A field \in Collections : fetched[field] = PassedIn(field)

\* C3: a second analysis of the same pull request, served the same record and
\* the same collections, returns a PRDetails equal to the first one's in every
\* field other than generated_at.
C3_SameInputsSameDetails ==
    (prev # Nil /\ result # Nil) =>
        [Deref(result) EXCEPT !.GeneratedAt = Deref(prev).result.GeneratedAt]
            = Deref(prev).result

OptionalMetrics(m) ==
    {m.TimeToFirstReviewRequestHours, m.TimeToFirstReviewHours, m.ReviewCycleTimeHours,
     m.BlockingNonBlockingRatio, m.ReviewerParticipationRatio}

\* no optional metric was calculated and draft time lacks one of its two instants
NoMetricCalculable ==
    /\ OptionalMetrics(Deref(Deref(result).Metrics)) = {Nil}
    /\ timestamps.CreatedAt = Nil \/ timestamps.FirstReviewRequest = Nil

NoTimestampAvailable ==
    LET t == Deref(Deref(result).Timestamps)
    IN  {t.FirstCommit, t.CreatedAt, t.FirstReviewRequest, t.FirstComment, t.FirstApproval,
         t.SecondApproval, t.MergedAt, t.ClosedAt, t.ReleaseCreatedAt} = {Nil}

\* C4: in the JSON of a PRDetails the metrics object is left out when no metric
\* is calculable, the timestamps object is left out when no timestamp is
\* available, and no field inside either of them is null.
C4_EmptyObjectsOmitted ==
    jsonOutput # Nil =>
        LET json == Deref(jsonOutput)
        IN  /\ (Deref(result).Metrics = Nil \/ NoMetricCalculable)
                  => "metrics" \notin DOMAIN json
            /\ (Deref(result).Timestamps = Nil \/ NoTimestampAvailable)
                  => "timestamps" \notin DOMAIN json
            /\ "metrics" \in DOMAIN json
                  => \A k \in DOMAIN json["metrics"] : json["metrics"][k] # Nil
            /\ "timestamps" \in DOMAIN json
                  => \A k \in DOMAIN json["timestamps"] : json["timestamps"][k] # Nil

(***************************************************************************)
(* Properties of calculatePRMetrics (checked under SpecMetrics).           *)
(***************************************************************************)
Calculated == pc = "metricsDone"
M == Deref(metrics)

\* the instant a stored timestamp shows
Instant(p) == Deref(p).sec

\* the float x is the quotient n / d
IsQuotient(x, n, d) == x.den > 0 /\ x.num * d = n * x.den

RequestAfterCreation ==
    /\ timestamps.CreatedAt # Nil
    /\ timestamps.FirstReviewRequest # Nil
    /\ Instant(timestamps.FirstReviewRequest) > Instant(timestamps.CreatedAt)

\* C5: draft_time_hours always has a value: the hours from created_at to
\* first_review_request when both are present and the request is strictly
\* after the creation, and exactly 0.0 in every other case.
C5_DraftTimeAlwaysValued ==
    Calculated =>
        IF RequestAfterCreation
        THEN IsQuotient(M.DraftTimeHours,
                        Instant(timestamps.FirstReviewRequest) - Instant(timestamps.CreatedAt),
                        SecondsPerHour)
        ELSE M.DraftTimeHours = [num |-> 0, den |-> 1]

C5_Witness ==
    /\ Calculated
    /\ timestamps.CreatedAt # Nil /\ timestamps.FirstReviewRequest # Nil
    /\ Instant(timestamps.FirstReviewRequest) < Instant(timestamps.CreatedAt)
    /\ M.DraftTimeHours.num = 0

\* C6: time_to_first_review_request_hours is present iff created_at and
\* first_review_request are both present and the request is strictly after
\* the creation; present, it equals draft_time_hours; absent, draft_time_hours
\* is 0.0; it is never emitted as zero.
C6_RequestHoursPresence ==
    Calculated =>
        /\ (M.TimeToFirstReviewRequestHours # Nil) <=> RequestAfterCreation
        /\ M.TimeToFirstReviewRequestHours # Nil =>
              /\ Deref(M.TimeToFirstReviewRequestHours) = M.DraftTimeHours
              /\ Deref(M.TimeToFirstReviewRequestHours).num # 0
        /\ M.TimeToFirstReviewRequestHours = Nil => M.DraftTimeHours.num = 0

C6_Witness ==
    /\ Calculated
    /\ timestamps.CreatedAt # Nil /\ timestamps.FirstReviewRequest # Nil
    /\ Instant(timestamps.FirstReviewRequest) = Instant(timestamps.CreatedAt)
    /\ M.TimeToFirstReviewRequestHours = Nil
    /\ M.DraftTimeHours.num = 0

\* the instants of the review activities that are present
ActivityInstants ==
    {Instant(p) : p \in {timestamps.FirstComment, timestamps.FirstApproval} \ {Nil}}

\* C7: time_to_first_review_hours is the hours from first_review_request to
\* the earlier of first_comment and first_approval; it is present only if
\* first_review_request is present and that earliest instant is strictly after
\* it, and absent when the earlier activity precedes the request even if the
\* other one follows it.
C7_FirstReviewFromEarliestActivity ==
    Calculated =>
        /\ M.TimeToFirstReviewHours # Nil =>
              /\ timestamps.FirstReviewRequest # Nil
              /\ ActivityInstants # {}
              /\ \A a \in ActivityInstants : a > Instant(timestamps.FirstReviewRequest)
              /\ \E a \in ActivityInstants :
                    /\ \A b \in ActivityInstants : a <= b
                    /\ IsQuotient(Deref(M.TimeToFirstReviewHours),
                                  a - Instant(timestamps.FirstReviewRequest), SecondsPerHour)
        /\ ( /\ timestamps.FirstReviewRequest # Nil
             /\ \E a \in ActivityInstants : a < Instant(timestamps.FirstReviewRequest) )
           => M.TimeToFirstReviewHours = Nil

C7_Witness ==
    /\ Calculated
    /\ timestamps.FirstReviewRequest # Nil
    /\ timestamps.FirstComment # Nil /\ timestamps.FirstApproval # Nil
    /\ Instant(timestamps.FirstApproval) < Instant(timestamps.FirstReviewRequest)
    /\ Instant(timestamps.FirstComment) > Instant(timestamps.FirstReviewRequest)
    /\ M.TimeToFirstReviewHours = Nil

\* C8: review_cycle_time_hours is the hours from first_review_request to the
\* resolution time, merged_at whenever present and closed_at only when
\* merged_at is absent; it is present only if the request and a resolution
\* time exist and the resolution is strictly after the request.
C8_ReviewCycleUsesMergeFirst ==
    (Calculated /\ M.ReviewCycleTimeHours # Nil) =>
            /\ timestamps.FirstReviewRequest # Nil
            /\ LET res == IF timestamps.MergedAt # Nil THEN timestamps.MergedAt
                          ELSE timestamps.ClosedAt
               IN  /\ res # Nil
                   /\ Instant(res) > Instant(timestamps.FirstReviewRequest)
                   /\ IsQuotient(Deref(M.ReviewCycleTimeHours),
                                 Instant(res) - Instant(timestamps.FirstReviewRequest),
                                 SecondsPerHour)

C8_Witness ==
    /\ Calculated
    /\ timestamps.FirstReviewRequest # Nil
    /\ timestamps.MergedAt # Nil /\ timestamps.ClosedAt # Nil
    /\ Instant(timestamps.ClosedAt) < Instant(timestamps.MergedAt)
    /\ M.ReviewCycleTimeHours # Nil
    /\ IsQuotient(Deref(M.ReviewCycleTimeHours),
                  Instant(timestamps.MergedAt) - Instant(timestamps.FirstReviewRequest),
                  SecondsPerHour)

ReviewerLogins == {reviews[i].login : i \in DOMAIN reviews}
RequestedLogins == ReviewerLogins \cup Range(pr.requestedReviewers)

\* C9: reviewer_participation_ratio is present iff the requested-reviewer
\* count (distinct reviewer logins united with the pending reviewers) is
\* nonzero; present, it is (distinct logins that reviewed) / (that count) and
\* never greater than 1.
C9_ParticipationRatio ==
    Calculated =>
        /\ (M.ReviewerParticipationRatio # Nil) <=> (RequestedLogins # {})
        /\ M.ReviewerParticipationRatio # Nil =>
              /\ IsQuotient(Deref(M.ReviewerParticipationRatio),
                            Cardinality(ReviewerLogins), Cardinality(RequestedLogins))
              /\ Deref(M.ReviewerParticipationRatio).num <= Deref(M.ReviewerParticipationRatio).den

C9_Witness ==
    /\ Calculated
    /\ Len(reviews) = 3
    /\ Cardinality(ReviewerLogins) = 2
    /\ ReviewerLogins \cap Range(pr.requestedReviewers) # {}
    /\ Range(pr.requestedReviewers) \ ReviewerLogins # {}
    /\ M.ReviewerParticipationRatio = Ptr([num |-> 2, den |-> 3])

ReviewsWith(S) == {i \in DOMAIN reviews : reviews[i].state \in S}

\* C10: blocking_non_blocking_ratio is present iff at least one review is
\* COMMENTED or APPROVED; present, it is (number of CHANGES_REQUESTED reviews)
\* / (number of COMMENTED or APPROVED reviews), each review counted and the
\* reviews with any other verdict counted in neither term.
C10_BlockingRatio ==
    Calculated =>
        /\ (M.BlockingNonBlockingRatio # Nil) <=> (ReviewsWith({"COMMENTED", "APPROVED"}) # {})
        /\ M.BlockingNonBlockingRatio # Nil =>
              IsQuotient(Deref(M.BlockingNonBlockingRatio),
                         Cardinality(ReviewsWith({"CHANGES_REQUESTED"})),
                         Cardinality(ReviewsWith({"COMMENTED", "APPROVED"})))

C10_Witness ==
    /\ Calculated
    /\ \E i, j, k \in DOMAIN reviews :
          /\ reviews[i].state = "CHANGES_REQUESTED"
          /\ reviews[j].state = "COMMENTED"
          /\ reviews[k].state = "DISMISSED"
          /\ reviews[i].login = reviews[j].login
    /\ M.BlockingNonBlockingRatio = Ptr([num |-> 1, den |-> 1])

(***************************************************************************)
(* The derivation stage on arbitrary arguments: the collections in any     *)
(* order, as the fetches may have returned them.                           *)
(***************************************************************************)
Times == {[sec |-> t, zone |-> UTC] : t \in Instants}

\* reviews of one reviewer, at any instants
TimedReviews ==
    [login : {"alice"}, state : {"APPROVED", "COMMENTED"}, submittedAt : Times]

\* reviews of several reviewers, with any verdict
VerdictReviews ==
    [login : Reviewers, state : {"APPROVED", "CHANGES_REQUESTED", "COMMENTED"},
     submittedAt : {Epoch}]

PendingLists == {<<>>, <<"alice">>, <<"alice", "carol">>}

\* comments of two reviewers and of the author, carol
CommentInputs ==
    [login : {"alice", "bob", "carol"}, createdAt : {Epoch, [sec |-> MaxSec, zone |-> UTC]}]

TimelineInputs == [event : {"review_requested", "labeled"}, createdAt : Times]

\* commits with the given author dates
CommitsDated(dates) == [i \in DOMAIN dates |-> [sha |-> i, date |-> dates[i]]]

ReleaseNames == <<"Release 1", "Release 2", "Release 3", "Release 4", "Release 5">>
TagNames == <<"v1", "v2", "v3", "v4", "v5">>

\* release i of a list is named ReleaseNames[i] or has no name, is tagged
\* TagNames[i] and was published at published[i], if at all
ReleasesOf(named, published) ==
    [i \in DOMAIN named |->
        [ name |-> IF named[i] THEN ReleaseNames[i] ELSE "",
          tagName |-> TagNames[i],
          publishedAt |-> published[i],
          createdAt |-> Ptr(Epoch) ]]

\* words of a text: an issue key, a CVE identifier or a plain word, each
\* written in upper or in lower case
Words == [up : {"ABC-123", "CVE-2023", "FIX"}, lower : BOOLEAN]

\* words of a PR body: another issue key or a CVE identifier, in either case
BodyWords == [up : {"SEC-1", "CVE-2023"}, lower : BOOLEAN]

\* the arguments of the derivation functions, one group varying at a time
DerivationInputs(f) ==
    \/ \E rs \in SeqsUpTo(TimedReviews, MaxReviews) :
          f = [NothingFetched EXCEPT !.reviews = rs]
    \/ \E rs \in SeqsUpTo(VerdictReviews, MaxReviews), pending \in PendingLists :
          f = [NothingFetched EXCEPT
                  !.reviews = rs,
                  !.pr = [DefaultPR EXCEPT !.requestedReviewers = pending]]
    \/ \E k \in 0 .. MaxInputs :
          \E cs \in [1 .. k -> CommentInputs], rcs \in SeqsUpTo(CommentInputs, MaxInputs - k) :
             f = [NothingFetched EXCEPT !.comments = cs, !.reviewComments = rcs]
    \/ \E k \in 0 .. MaxInputs :
          \E tl \in [1 .. k -> TimelineInputs], dates \in SeqsUpTo(Times, MaxInputs - k) :
             f = [NothingFetched EXCEPT !.timeline = tl, !.commits = CommitsDated(dates)]
    \/ \E k \in 0 .. MaxInputs :
          \E named \in [1 .. k -> BOOLEAN], published \in [1 .. k -> Opt(Times)],
             merged \in BOOLEAN,
             mergedAt \in {Nil, Ptr(Epoch), Ptr([sec |-> 1, zone |-> UTC])} :
             f = [NothingFetched EXCEPT
                     !.releases = ReleasesOf(named, published),
                     !.pr = [DefaultPR EXCEPT !.merged = merged, !.mergedAt = mergedAt]]
    \/ \E draft \in BOOLEAN, merged \in BOOLEAN, state \in {"open", "closed"} :
          f = [NothingFetched EXCEPT
                  !.pr = [DefaultPR EXCEPT !.draft = draft, !.merged = merged,
                                           !.state = state]]
    \/ \E title \in SeqsUpTo(Words, MaxWords),
          body \in {Nil} \cup {Ptr(t) : t \in SeqsUpTo(BodyWords, 1)},
          headRef \in SeqsUpTo(Words, 1),
          login \in {"carol", "dependabot[bot]"} :
          f = [NothingFetched EXCEPT
                  !.pr = [DefaultPR EXCEPT !.title = title, !.body = body,
                                           !.headRef = headRef, !.login = login]]

\* a server that served f, each collection in a single page
ServerOf(f) ==
    [ pr |-> f.pr,
      reviews |-> <<Page(f.reviews, 0)>>, comments |-> <<Page(f.comments, 0)>>,
      reviewComments |-> <<Page(f.reviewComments, 0)>>,
      timeline |-> <<Page(f.timeline, 0)>>, files |-> <<Page(f.files, 0)>>,
      commits |-> <<Page(f.commits, 0)>>, releases |-> <<Page(f.releases, 0)>> ]

\* AnalyzePR at the start of its derivation stage
InitDerivation ==
    /\ pc = "derive"
    /\ config = LibConfig
    /\ DerivationInputs(fetched)
    /\ server = ServerOf(fetched)
    /\ clock = 0
    /\ optsPage = 0 /\ acc = <<>> /\ requests = <<>>
    /\ timestamps = NoTimestamps /\ metrics = NoMetrics
    /\ result = Nil /\ err = Nil /\ prev = Nil
    /\ jsonOutput = Nil /\ stdout = <<>> /\ stderr = <<>> /\ exitCode = Nil
    /\ tt = NoTimestamp

NextDerivation == Derive \/ AnalyzePRToJSON

SpecDerivation == InitDerivation /\ [][NextDerivation]_vars

(***************************************************************************)
(* formatToUTC on arbitrary strings, applied to a string and then to its   *)
(* own result.                                                             *)
(***************************************************************************)
MaxZone == 2

\* offsets from UTC, in hours
Zones == -MaxZone .. MaxZone

\* the strings handed to formatToUTC: RFC3339 strings of every offset, with
\* and without a fractional second, and strings time.Parse rejects
TimestampStrings ==
    [valid : BOOLEAN, sec : Instants, frac : {0, 5}, zone : Zones]

InitFormat ==
    /\ pc = "formatToUTC"
    /\ tt \in [timestamp : TimestampStrings, result : {Nil}, again : {Nil}]
    /\ config = LibConfig
    /\ fetched = NothingFetched
    /\ server = ServerOf(fetched)
    /\ clock = 0
    /\ optsPage = 0 /\ acc = <<>> /\ requests = <<>>
    /\ timestamps = NoTimestamps /\ metrics = NoMetrics
    /\ result = Nil /\ err = Nil /\ prev = Nil
    /\ jsonOutput = Nil /\ stdout = <<>> /\ stderr = <<>> /\ exitCode = Nil

\* result := formatToUTC(tt.timestamp)
FormatToUTC ==
    /\ pc = "formatToUTC"
    /\ tt' = [tt EXCEPT !.result = Ptr(formatToUTC(tt.timestamp))]
    /\ pc' = "formatted"
    /\ UNCHANGED <<env, clock, helper, requests, fetched, derived, returned, outputs, prev>>

\* formatToUTC(result)
FormatResult ==
    /\ pc = "formatted"
    /\ tt' = [tt EXCEPT !.again = Ptr(formatToUTC(Deref(tt.result)))]
    /\ pc' = "formattedTwice"
    /\ UNCHANGED <<env, clock, helper, requests, fetched, derived, returned, outputs, prev>>

NextFormat == FormatToUTC \/ FormatResult

SpecFormat == InitFormat /\ [][NextFormat]_vars

(***************************************************************************)
(* Properties of the derivation functions.                                 *)
(***************************************************************************)
Derived == result # Nil
D == Deref(result)

\* the arguments as they were passed to the derivation stage
Given(field) == server[field][1].items

TS == Deref(D.Timestamps)

\* the RFC3339 string, in UTC, of an instant
UTCStamp(t) == [valid |-> TRUE, sec |-> t.sec, frac |-> 0, zone |-> UTC]

ApprovedReviews == {i \in DOMAIN Given("reviews") : Given("reviews")[i].state = "APPROVED"}

\* review i is submitted no later than every review of S
Earliest(i, S) ==
    \A j \in S : Given("reviews")[i].submittedAt.sec <= Given("reviews")[j].submittedAt.sec

\* C11: first_approval and second_approval are the smallest and the second
\* smallest submission times among the APPROVED reviews, one per review, in
\* whatever order the reviews come; first_approval is absent exactly when no
\* review is APPROVED and second_approval exactly when fewer than two are.
C11_ApprovalsInTimeOrder ==
    Derived =>
        /\ TS.FirstApproval = Nil <=> ApprovedReviews = {}
        /\ TS.SecondApproval = Nil <=> Cardinality(ApprovedReviews) < 2
        /\ ApprovedReviews # {} =>
              \E i \in ApprovedReviews :
                 /\ Earliest(i, ApprovedReviews)
                 /\ TS.FirstApproval = Ptr(UTCStamp(Given("reviews")[i].submittedAt))
                 /\ Cardinality(ApprovedReviews) >= 2 =>
                       \E j \in ApprovedReviews \ {i} :
                          /\ Earliest(j, ApprovedReviews \ {i})
                          /\ TS.SecondApproval
                                = Ptr(UTCStamp(Given("reviews")[j].submittedAt))
        /\ TS.SecondApproval # Nil =>
              /\ TS.FirstApproval # Nil
              /\ Deref(TS.FirstApproval).sec <= Deref(TS.SecondApproval).sec

\* three approvals of one reviewer, given latest first
C11_Witness ==
    /\ Derived
    /\ Len(Given("reviews")) = 3
    /\ \A i \in 1 .. 3 :
          /\ Given("reviews")[i].state = "APPROVED"
          /\ Given("reviews")[i].submittedAt.sec = 3 - i
    /\ TS.FirstApproval = Ptr(UTCStamp([sec |-> 0, zone |-> UTC]))
    /\ TS.SecondApproval = Ptr(UTCStamp([sec |-> 1, zone |-> UTC]))

CommentInstants ==
    {Given("comments")[i].createdAt.sec : i \in DOMAIN Given("comments")}
    \cup {Given("reviewComments")[i].createdAt.sec : i \in DOMAIN Given("reviewComments")}

\* C12: first_comment is the earliest creation time among the conversation
\* comments and the review comments together, the author's own included, in
\* whatever order they come; it is absent exactly when both lists are empty.
C12_FirstCommentIsEarliest ==
    Derived =>
        /\ TS.FirstComment = Nil <=> CommentInstants = {}
        /\ CommentInstants # {} =>
              \E t \in CommentInstants :
                 /\ \A u \in CommentInstants : t <= u
                 /\ TS.FirstComment = Ptr(UTCStamp([sec |-> t, zone |-> UTC]))

\* the earliest comment is a review comment of the author, given last
C12_Witness ==
    /\ Derived
    /\ Len(Given("comments")) = 1
    /\ Given("comments")[1].createdAt.sec = MaxSec
    /\ Len(Given("reviewComments")) = 2
    /\ Given("reviewComments")[1].createdAt.sec = MaxSec
    /\ Given("reviewComments")[2] = [login |-> D.AuthorUsername, createdAt |-> Epoch]
    /\ TS.FirstComment = Ptr(UTCStamp(Epoch))

ReviewRequests ==
    {i \in DOMAIN Given("timeline") : Given("timeline")[i].event = "review_requested"}

\* C13: commits_after_first_review is the number of commits dated strictly
\* after the first review_requested event of the timeline, in the timeline's
\* order, and 0 when the timeline has no such event.
C13_CommitsAfterFirstRequest ==
    Derived =>
        D.CommitsAfterFirstReview =
            IF ReviewRequests = {} THEN 0
            ELSE LET first == CHOOSE i \in ReviewRequests : \A j \in ReviewRequests : i <= j
                     at == Given("timeline")[first].createdAt.sec
                 IN  Cardinality({k \in DOMAIN Given("commits") :
                                     Given("commits")[k].date.sec > at})

\* a commit dated at the first request and after a second, earlier dated one
C13_Witness ==
    /\ Derived
    /\ Len(Given("timeline")) = 2
    /\ Given("timeline")[1] = [event |-> "review_requested", createdAt |-> [sec |-> 1, zone |-> UTC]]
    /\ Given("timeline")[2] = [event |-> "review_requested", createdAt |-> Epoch]
    /\ Len(Given("commits")) = 1
    /\ Given("commits")[1].date.sec = 1
    /\ D.CommitsAfterFirstReview = 0

\* the releases published strictly after the merge of a merged PR
Candidates ==
    IF server.pr.merged /\ server.pr.mergedAt # Nil
    THEN {i \in DOMAIN Given("releases") :
            /\ Given("releases")[i].publishedAt # Nil
            /\ Deref(Given("releases")[i].publishedAt).sec > Deref(server.pr.mergedAt).sec}
    ELSE {}

\* C14: for a merged PR with a merge time the release reported is, among the
\* releases published strictly after the merge, one published earliest,
\* whatever the order of the list, under its name or, without a name, its tag;
\* no release is reported when the PR is not merged, has no merge time or no
\* release was published after the merge.
C14_EarliestReleaseAfterMerge ==
    Derived =>
        /\ D.ReleaseName = Nil <=> Candidates = {}
        /\ Candidates # {} =>
              \E i \in Candidates :
                 /\ \A j \in Candidates :
                       Deref(Given("releases")[i].publishedAt).sec
                          <= Deref(Given("releases")[j].publishedAt).sec
                 /\ D.ReleaseName =
                       Ptr(IF Given("releases")[i].name = ""
                           THEN Given("releases")[i].tagName
                           ELSE Given("releases")[i].name)

\* the earliest release after the merge comes second in the list and has no name
C14_Witness ==
    /\ Derived
    /\ server.pr.merged
    /\ server.pr.mergedAt = Ptr(Epoch)
    /\ Len(Given("releases")) = 3
    /\ Given("releases")[1].publishedAt = Ptr([sec |-> 2, zone |-> UTC])
    /\ Given("releases")[1].name # ""
    /\ Given("releases")[2].publishedAt = Ptr([sec |-> 1, zone |-> UTC])
    /\ Given("releases")[2].name = ""
    /\ Given("releases")[3].publishedAt = Ptr(Epoch)
    /\ D.ReleaseName = Ptr(Given("releases")[2].tagName)

\* C15: num_requested_reviewers is the number of logins that submitted a review
\* or are in the PR's pending requested-reviewers list, each login counted once.
C15_RequestedReviewersUnion ==
    Derived =>
        D.NumRequestedReviewers =
            Cardinality({l \in Logins :
                \/ \E i \in DOMAIN Given("reviews") : Given("reviews")[i].login = l
                \/ \E i \in DOMAIN server.pr.requestedReviewers :
                      server.pr.requestedReviewers[i] = l})

\* alice reviewed twice and is still pending; bob reviewed; carol is pending
C15_Witness ==
    /\ Derived
    /\ Len(Given("reviews")) = 3
    /\ Given("reviews")[1].login = "alice"
    /\ Given("reviews")[2].login = "bob"
    /\ Given("reviews")[3].login = "alice"
    /\ server.pr.requestedReviewers = <<"alice", "carol">>
    /\ D.NumRequestedReviewers = 3

\* C16: approver_usernames holds exactly the logins with at least one APPROVED
\* review, each login once, and num_approvers is its number of entries.
C16_ApproversAreDistinctLogins ==
    Derived =>
        /\ Range(D.ApproverUsernames) =
              {l \in Logins : \E i \in DOMAIN Given("reviews") :
                                 /\ Given("reviews")[i].login = l
                                 /\ Given("reviews")[i].state = "APPROVED"}
        /\ \A i, j \in DOMAIN D.ApproverUsernames :
              i # j => D.ApproverUsernames[i] # D.ApproverUsernames[j]
        /\ D.NumApprovers = Len(D.ApproverUsernames)

\* alice approved twice, bob requested changes
C16_Witness ==
    /\ Derived
    /\ Len(Given("reviews")) = 3
    /\ Given("reviews")[1].login = "alice" /\ Given("reviews")[1].state = "APPROVED"
    /\ Given("reviews")[2].login = "bob" /\ Given("reviews")[2].state = "CHANGES_REQUESTED"
    /\ Given("reviews")[3].login = "alice" /\ Given("reviews")[3].state = "APPROVED"
    /\ D.ApproverUsernames = <<"alice">>
    /\ D.NumApprovers = 1

\* the place of a login in the lexicographic order of the logins
Rank(l) == CHOOSE i \in DOMAIN LoginsSorted : LoginsSorted[i] = l

\* C17: commenter_usernames lists, in strictly ascending lexicographic order,
\* exactly the logins that wrote a conversation comment or a review comment,
\* without the PR author's, and num_commenters is its length.
C17_CommentersSortedWithoutAuthor ==
    Derived =>
        /\ Range(D.CommenterUsernames) =
              {l \in Logins \ {server.pr.login} :
                  \/ \E i \in DOMAIN Given("comments") : Given("comments")[i].login = l
                  \/ \E i \in DOMAIN Given("reviewComments") :
                        Given("reviewComments")[i].login = l}
        /\ \A i, j \in DOMAIN D.CommenterUsernames :
              i < j => Rank(D.CommenterUsernames[i]) < Rank(D.CommenterUsernames[j])
        /\ D.NumCommenters = Len(D.CommenterUsernames)

\* bob and the author commented in the conversation, alice on the code
C17_Witness ==
    /\ Derived
    /\ server.pr.login = "carol"
    /\ Len(Given("comments")) = 2
    /\ Given("comments")[1].login = "bob"
    /\ Given("comments")[2].login = "carol"
    /\ Len(Given("reviewComments")) = 1
    /\ Given("reviewComments")[1].login = "alice"
    /\ D.CommenterUsernames = <<"alice", "bob">>
    /\ D.NumCommenters = 2

\* the number of reviews of a list that carry verdict v
RECURSIVE CountVerdict(_, _)
CountVerdict(rs, v) ==
    IF rs = <<>> THEN 0
    ELSE (IF Head(rs).state = v THEN 1 ELSE 0) + CountVerdict(Tail(rs), v)

\* C18: change_requests_count is the number of reviews with verdict
\* CHANGES_REQUESTED: a reviewer who requested changes n times adds n.
C18_ChangeRequestsPerReview ==
    Derived => D.ChangeRequestsCount = CountVerdict(Given("reviews"), "CHANGES_REQUESTED")

\* alice requested changes twice, bob approved
C18_Witness ==
    /\ Derived
    /\ Len(Given("reviews")) = 3
    /\ Given("reviews")[1].login = "alice" /\ Given("reviews")[1].state = "CHANGES_REQUESTED"
    /\ Given("reviews")[2].login = "bob" /\ Given("reviews")[2].state = "APPROVED"
    /\ Given("reviews")[3].login = "alice" /\ Given("reviews")[3].state = "CHANGES_REQUESTED"
    /\ D.ChangeRequestsCount = 2

\* C19: state is "draft" whenever the draft flag is set, whatever the merged
\* flag and the raw state; otherwise "merged" whenever the merged flag is set;
\* otherwise the PR's raw state.
C19_StatePrecedence ==
    Derived =>
        /\ server.pr.draft => D.State = "draft"
        /\ (~server.pr.draft /\ server.pr.merged) => D.State = "merged"
        /\ (~server.pr.draft /\ ~server.pr.merged) => D.State = server.pr.state

\* a closed PR with both flags set
C19_Witness ==
    /\ Derived
    /\ server.pr.draft
    /\ server.pr.merged
    /\ server.pr.state = "closed"
    /\ D.State = "draft"

\* the places of a text that hold an issue key which is no CVE identifier
KeysIn(text) ==
    {i \in DOMAIN text : /\ ~text[i].lower
                         /\ text[i].up \in jiraPattern
                         /\ text[i].up # "CVE-2023"}

\* the branch name, searched whatever its case
BranchKeys ==
    {i \in DOMAIN server.pr.headRef : /\ server.pr.headRef[i].up \in jiraPattern
                                      /\ server.pr.headRef[i].up # "CVE-2023"}

BodyKeys == IF server.pr.body = Nil THEN {} ELSE KeysIn(Deref(server.pr.body))

\* C20: jira_issue is never a CVE identifier: a title that holds an issue key
\* yields its first issue key, wherever CVE identifiers stand around it, and a
\* PR whose title, body and branch hold no issue key other than CVE
\* identifiers yields BOT for a bot and UNKNOWN otherwise.
C20_CVENeverReturned ==
    Derived =>
        /\ D.JiraIssue # "CVE-2023"
        /\ KeysIn(server.pr.title) # {} =>
              \E i \in KeysIn(server.pr.title) :
                 /\ \A j \in KeysIn(server.pr.title) : i <= j
                 /\ D.JiraIssue = server.pr.title[i].up
        /\ (KeysIn(server.pr.title) = {} /\ BodyKeys = {} /\ BranchKeys = {}) =>
              D.JiraIssue = IF server.pr.login \in BotLogins THEN "BOT" ELSE "UNKNOWN"

\* a title with a CVE identifier before the issue key
C20_Witness ==
    /\ Derived
    /\ server.pr.title = << [up |-> "CVE-2023", lower |-> FALSE],
                            [up |-> "ABC-123", lower |-> FALSE] >>
    /\ D.JiraIssue = "ABC-123"


\* the first issue key of a text, given the positions of its issue keys
FirstKey(text, keys) == text[CHOOSE i \in keys : \A j \in keys : i <= j].up

\* C21: the sources are searched in the order title, body, branch and the
\* first one holding an issue key wins: a key of the body is returned only
\* when the title holds none, a key of the branch only when neither the title
\* nor the body holds one; a key written in lower case counts in the branch
\* and counts neither in the title nor in the body.
C21_TitleThenBodyThenBranch ==
    Derived =>
        /\ KeysIn(server.pr.title) # {} =>
              D.JiraIssue = FirstKey(server.pr.title, KeysIn(server.pr.title))
        /\ (KeysIn(server.pr.title) = {} /\ BodyKeys # {}) =>
              D.JiraIssue = FirstKey(Deref(server.pr.body), BodyKeys)
        /\ (KeysIn(server.pr.title) = {} /\ BodyKeys = {} /\ BranchKeys # {}) =>
              D.JiraIssue = FirstKey(server.pr.headRef, BranchKeys)

\* a title whose only key is in lower case, a body with a key, a branch with
\* another key: the key of the body is returned
C21_Witness ==
    /\ Derived
    /\ server.pr.title = << [up |-> "ABC-123", lower |-> TRUE] >>
    /\ server.pr.body = Ptr(<< [up |-> "SEC-1", lower |-> FALSE] >>)
    /\ server.pr.headRef = << [up |-> "ABC-123", lower |-> TRUE] >>
    /\ D.JiraIssue = "SEC-1"

\* no searched text holds an issue key
NoKeyFound == KeysIn(server.pr.title) = {} /\ BodyKeys = {} /\ BranchKeys = {}

\* C22: when no searched text yields an issue key, jira_issue is BOT for an
\* author whose login holds the marker [bot] and UNKNOWN for any other
\* author; a key that is found is returned for a bot author too, so
\* jira_issue = BOT implies is_bot.
C22_BotOrUnknownFallback ==
    Derived =>
        /\ NoKeyFound =>
              D.JiraIssue = IF server.pr.login = "dependabot[bot]" THEN "BOT" ELSE "UNKNOWN"
        /\ ~NoKeyFound => D.JiraIssue \in jiraPattern
        /\ D.JiraIssue = "BOT" => D.IsBot
        /\ D.IsBot = (server.pr.login = "dependabot[bot]")

\* a bot author without any key, its title holding only a CVE identifier
C22_Witness ==
    /\ Derived
    /\ server.pr.login = "dependabot[bot]"
    /\ server.pr.title = << [up |-> "CVE-2023", lower |-> FALSE] >>
    /\ NoKeyFound
    /\ D.JiraIssue = "BOT"
    /\ D.IsBot

Needed ==
    {"reviews", "comments", "reviewComments", "timeline", "files", "commits"}
    \cup (IF server.pr.merged THEN {"releases"} ELSE {})

\* page n of a collection was requested and served
Received(field, n) == [what |-> field, page |-> n, ok |-> TRUE] \in Range(requests)

\* C24: the derivation stage is entered, and a result derived, only when
\* every collection (the releases too when the PR is merged) was received
\* up to and including the page whose NextPage is 0.
C24_DerivationAfterLastPages ==
    (pc = "derive" \/ result # Nil) =>
        \A field \in Needed :
           \A n \in DOMAIN server[field] : Received(field, n)

\* a merged PR whose reviews and commits come in two pages each
C24_Witness ==
    /\ result # Nil
    /\ server.pr.merged
    /\ Len(server.reviews) = 2 /\ server.reviews[2].next = 0
    /\ Len(server.commits) = 2
    /\ Received("releases", Len(server.releases))

\* the place of a request in the fetch order
FetchOrder(what) ==
    CASE what = "pr" -> 1
      [] what = "reviews" -> 2
      [] what = "comments" -> 3
      [] what = "reviewComments" -> 4
      [] what = "timeline" -> 5
      [] what = "files" -> 6
      [] what = "commits" -> 7
      [] what = "releases" -> 8

\* C25: the requests go out in the order PR, reviews, comments, review
\* comments, timeline, files, commits, releases: a request to a collection
\* comes after the last page of the collection before it, the releases are
\* requested, last, only for a PR fetched as merged, and a PR that is not
\* merged gets no release request and no release_name.
C25_FetchOrder ==
    /\ requests # <<>> => requests[1].what = "pr"
    /\ \A i \in DOMAIN requests : \A j \in DOMAIN requests :
          i < j => FetchOrder(requests[i].what) <= FetchOrder(requests[j].what)
    /\ \A j \in DOMAIN requests : \A k \in 2 .. FetchOrder(requests[j].what) - 1 :
          \E i \in 1 .. j - 1 :
             /\ FetchOrder(requests[i].what) = k
             /\ server[requests[i].what][requests[i].page].next = 0
    /\ \A j \in DOMAIN requests :
          requests[j].what = "releases" => server.pr.merged /\ fetched.pr.merged
    /\ (result # Nil /\ ~server.pr.merged) => Deref(result).ReleaseName = Nil
    /\ (jsonOutput # Nil /\ ~server.pr.merged) =>
          "release_name" \notin DOMAIN Deref(jsonOutput)

\* an analysis of a merged PR, some collection in two pages, that ended with
\* the request for the releases
C25_Witness ==
    /\ result # Nil
    /\ server.pr.merged
    /\ requests[Len(requests)].what = "releases"
    /\ requests[Len(requests) - 1].what = "commits"
    /\ Len(requests) > 8

\* the position of AnalyzePR inside each paginated helper
FetchPc ==
    [reviews |-> "fetchReviews", comments |-> "fetchComments",
     reviewComments |-> "fetchReviewComments", timeline |-> "fetchTimeline",
     files |-> "fetchPRFiles", commits |-> "fetchPRCommits", releases |-> "fetchReleases"]

\* AnalyzePR is inside a paginated helper
InHelper == \E field \in Collections : pc = FetchPc[field]

\* the places in the request log of the requests of a helper
RequestsOf(field) == {i \in DOMAIN requests : requests[i].what = field}

\* the helper of a collection has returned its slice and nothing has touched
\* the slice since
JustReturned(field) ==
    /\ Received(field, Len(server[field]))
    /\ result = Nil /\ err = Nil

\* what a paginated helper requests and returns
PagesInOrder ==
    \A field \in Collections :
       /\ \A i \in RequestsOf(field) :
             /\ i - 1 \notin RequestsOf(field) => requests[i].page = 1
             /\ i + 1 \in RequestsOf(field) =>
                   /\ requests[i].ok
                   /\ requests[i + 1].page = server[field][requests[i].page].next
             /\ \A j \in RequestsOf(field) : requests[j].page = requests[i].page => j = i
       /\ JustReturned(field) => fetched[field] = Flatten(server[field])

\* C26: each paginated helper starts at the first page, then requests the
\* page the previous response named as NextPage, each page once; it returns
\* the items of the pages it was served, concatenated in page order; and a
\* run of helpers that has started comes to its end, the server's pages
\* being finitely many.
C26_PaginationTerminates ==
    /\ []PagesInOrder
    /\ InHelper ~> ~InHelper

\* the commits helper has returned the items of two pages
C26_Witness ==
    /\ JustReturned("commits")
    /\ Len(server.commits) = 2
    /\ Len(fetched.commits) = 2
    /\ fetched.commits = server.commits[1].items \o server.commits[2].items

\* C27: a failed request is the last request of the invocation: the page is
\* not asked for again, nor are the later pages of its collection or the
\* collections after it.
C27_NoRequestAfterFailure ==
    \A i \in DOMAIN requests : ~requests[i].ok => i = Len(requests)

\* the first of two pages of reviews failed and the invocation has ended
\* without another request
C27_Witness ==
    /\ pc \in {"done", "exit"}
    /\ Len(server.reviews) = 2
    /\ Len(server.comments) = 2
    /\ requests = << [what |-> "pr", page |-> 0, ok |-> TRUE],
                     [what |-> "reviews", page |-> 1, ok |-> FALSE] >>

\* the command line was given arguments that do not parse, or parsed its
\* arguments and found no token
ConfigurationError ==
    /\ config.caller = "cli"
    /\ \/ config.parse = "error"
       \/ config.parse = "ok" /\ config.token = ""

FirstRequest == CHOOSE i \in ReviewRequests : \A j \in ReviewRequests : i <= j

\* C29: first_review_request is the time of the first review_requested event
\* in list order, commits_after_first_review counts the commits dated after
\* that same time, and so commits_after_first_review > 0 only when
\* first_review_request is present.
C29_SameFirstRequest ==
    Derived =>
        /\ TS.FirstReviewRequest =
              IF ReviewRequests = {} THEN Nil
              ELSE Ptr(UTCStamp(Given("timeline")[FirstRequest].createdAt))
        /\ TS.FirstReviewRequest # Nil =>
              D.CommitsAfterFirstReview =
                 Cardinality({k \in DOMAIN Given("commits") :
                                 Given("commits")[k].date.sec
                                    > Deref(TS.FirstReviewRequest).sec})
        /\ D.CommitsAfterFirstReview > 0 => TS.FirstReviewRequest # Nil

\* two requests, the later dated one first in the list, and a commit dated
\* after the earlier and not after the first
C29_Witness ==
    /\ Derived
    /\ Len(Given("timeline")) = 2
    /\ ReviewRequests = {1, 2}
    /\ Given("timeline")[1].createdAt.sec = 1
    /\ Given("timeline")[2].createdAt.sec = 0
    /\ Given("commits") = CommitsDated(<< [sec |-> 1, zone |-> UTC] >>)
    /\ Deref(TS.FirstReviewRequest).sec = 1
    /\ D.CommitsAfterFirstReview = 0

\* the sign of a float
Positive(x) == x.num * x.den > 0
NonNegative(x) == x.num * x.den >= 0

\* C30: in the PRMetrics calculatePRMetrics returns, each of the three
\* optional durations is strictly greater than 0 when present,
\* draft_time_hours is not negative, and each ratio is not negative when
\* present.
C30_MetricsSigns ==
    Calculated =>
        /\ M.TimeToFirstReviewRequestHours # Nil =>
              Positive(Deref(M.TimeToFirstReviewRequestHours))
        /\ M.TimeToFirstReviewHours # Nil => Positive(Deref(M.TimeToFirstReviewHours))
        /\ M.ReviewCycleTimeHours # Nil => Positive(Deref(M.ReviewCycleTimeHours))
        /\ NonNegative(M.DraftTimeHours)
        /\ M.BlockingNonBlockingRatio # Nil => NonNegative(Deref(M.BlockingNonBlockingRatio))
        /\ M.ReviewerParticipationRatio # Nil =>
              NonNegative(Deref(M.ReviewerParticipationRatio))

\* all three durations are present, with a resolution one second after the
\* review request
C30_Witness ==
    /\ Calculated
    /\ M.TimeToFirstReviewRequestHours # Nil
    /\ M.TimeToFirstReviewHours # Nil
    /\ M.ReviewCycleTimeHours = Ptr(Quot(1, 3600))
=============================================================================
